---- MODULE Spec2Model ----
(***************************************************************************)
(* Model of novaclient/shell.py: the `nova` command-line dispatcher.       *)
(*                                                                         *)
(* One behaviour is one run of the top-level main(): the tolerant first    *)
(* parse, extension discovery, construction of the subcommand registry,    *)
(* the strict second parse, the help / bash-completion short circuits, the *)
(* credential checks, client construction, authentication, the callback,   *)
(* and the top-level exception handler that decides the exit status.       *)
(*                                                                         *)
(* Python strings whose characters the code inspects (attribute names,     *)
(* file names, version strings, option strings) are sequences of           *)
(* one-character strings, so that startswith, slicing and replace are      *)
(* computed as the code computes them.                                     *)
(***************************************************************************)
EXTENDS Integers, Sequences, FiniteSets, TLC

VARIABLES
    argv,         \* the command line, as the two parsers read it
    pc,           \* the position of the run
    options,      \* result of the first parse (parse_known_args)
    version_str,  \* the version directory whose contrib directory is scanned
    listing,      \* the enumeration of that directory iglob produced
    extensions,   \* result of _discover_extensions
    subcommands,  \* self.subcommands
    parser,       \* TRUE once self.parser is set
    args,         \* result of the second parse (parse_args)
    debuglevel,   \* httplib2.debuglevel
    locals,       \* user, password, projectid, url, endpoint_name of main
    cs,           \* self.cs, the client
    calls,        \* the callbacks invoked so far
    log,          \* the checks passed and steps taken, in order
    stdout,       \* what was printed to standard output
    stderr,       \* the message printed to the error stream
    exc,          \* the exception propagating out of main
    traceback,    \* TRUE when the run ended with a stack dump
    exit_status   \* the process exit status, -1 while running

vars == <<argv, pc, options, version_str, listing, extensions, subcommands, parser, args,
          debuglevel, locals, cs, calls, log, stdout, stderr, exc, traceback,
          exit_status>>

(***************************************************************************)
(* Bounds.                                                                 *)
(***************************************************************************)
\* Largest number of entries the contrib directory listing holds.
MaxFiles == 2

(***************************************************************************)
(* String helpers (str.startswith, str.replace, slicing).                  *)
(***************************************************************************)
StartsWith(s, p) == Len(s) >= Len(p) /\ SubSeq(s, 1, Len(p)) = p

EndsWith(s, p) == Len(s) >= Len(p) /\ SubSeq(s, Len(s) - Len(p) + 1, Len(s)) = p

RECURSIVE Replace(_, _, _)
Replace(s, old, new) ==
    IF s = <<>> THEN <<>>
    ELSE <<IF Head(s) = old THEN new ELSE Head(s)>> \o Replace(Tail(s), old, new)

(***************************************************************************)
(* Names used by the code, as character sequences.                         *)
(***************************************************************************)
DoPrefix == <<"d", "o", "_">>
PySuffix == <<".", "p", "y">>
InitName == <<"_", "_", "i", "n", "i", "t", "_", "_">>
HelpName == <<"h", "e", "l", "p">>
BashCompletionHyphen ==
    <<"b", "a", "s", "h", "-", "c", "o", "m", "p", "l", "e", "t", "i", "o", "n">>
BashCompletionUnderscore ==
    <<"b", "a", "s", "h", "_", "c", "o", "m", "p", "l", "e", "t", "i", "o", "n">>
OptH == <<"-", "h">>
OptHelp == <<"-", "-", "h", "e", "l", "p">>
Version11 == <<"1", ".", "1">>
Version2 == <<"2">>
Version10 == <<"1", ".", "0">>
Version3 == <<"3">>
NoVersion == <<>>

(***************************************************************************)
(* Module attributes.  An attribute value is a function (a callback, with  *)
(* its `unauthenticated` tag and its `arguments` list), a class (derived   *)
(* from base.Manager or not) or any other value.                           *)
(***************************************************************************)
Func(id, unauth, arguments) ==
    [kind |-> "function", id |-> id, manager |-> FALSE,
     unauthenticated |-> unauth, arguments |-> arguments]

Class(id, isManager) ==
    [kind |-> "class", id |-> id, manager |-> isManager,
     unauthenticated |-> FALSE, arguments |-> <<>>]

Other(id) ==
    [kind |-> "other", id |-> id, manager |-> FALSE,
     unauthenticated |-> FALSE, arguments |-> <<>>]

Attr(name, value) == [name |-> name, value |-> value]

\* An argument descriptor: the flag names given to add_argument and nargs.
Arg(names, nargs) == [names |-> names, nargs |-> nargs]

\* novaclient.v1_1.shell: the version command module.
shell_v1_1 ==
    <<Attr(<<"C", "L", "I", "E", "N", "T">>, Class("v1_1.Client", FALSE)),
      Attr(<<"d", "o", "_", "i", "m", "a", "g", "e", "_", "l", "i", "s", "t">>,
           Func("v1_1.do_image_list", FALSE, <<>>)),
      Attr(<<"d", "o", "_", "l", "i", "s", "t">>,
           Func("v1_1.do_list", FALSE,
                <<Arg(<<<<"-", "-", "i", "p">>>>, "1")>>)),
      Attr(<<"u", "t", "i", "l", "s">>, Other("v1_1.utils"))>>

\* novaclient.keystone.shell: the keystone command module.
shell_keystone ==
    <<Attr(<<"d", "o", "_", "d", "i", "s", "c", "o", "v", "e", "r">>,
           Func("keystone.do_discover", TRUE, <<>>)),
      Attr(<<"u", "t", "i", "l", "s">>, Other("keystone.utils"))>>

\* The bound methods of the shell object that the dispatcher compares with.
do_help == Func("self.do_help", FALSE, <<Arg(<<<<"c", "o", "m", "m", "a", "n", "d">>>>, "?")>>)

do_bash_completion == Func("self.do_bash_completion", FALSE, <<>>)

\* dir(self): the attributes of the OpenStackComputeShell instance.
shell_self ==
    <<Attr(<<"d", "o", "_", "b", "a", "s", "h", "_", "c", "o", "m", "p", "l", "e", "t", "i", "o", "n">>,
           do_bash_completion),
      Attr(<<"d", "o", "_", "h", "e", "l", "p">>, do_help),
      Attr(<<"m", "a", "i", "n">>, Func("self.main", FALSE, <<>>)),
      Attr(<<"s", "u", "b", "c", "o", "m", "m", "a", "n", "d", "s">>, Other("self.subcommands"))>>

(***************************************************************************)
(* The files a contrib directory can hold.  Each entry is a file name and  *)
(* the module imp.load_source produces from it.                            *)
(***************************************************************************)
File(file, module) == [file |-> file, module |-> module]

PluginA ==
    File(<<"a", ".", "p", "y">>,
         <<Attr(<<"A", "M">>, Class("a.AManager", TRUE)),
           Attr(<<"d", "o", "_", "x">>,
                Func("a.do_x", FALSE, <<Arg(<<<<"-", "-", "n">>>>, "1")>>))>>)

\* Defines do_x like PluginA, and do_help like the shell itself.
PluginB ==
    File(<<"b", ".", "p", "y">>,
         <<Attr(<<"B", "M">>, Class("b.BManager", TRUE)),
           Attr(<<"b", "a", "s", "e">>, Other("b.base")),
           Attr(<<"d", "o", "_", "h", "e", "l", "p">>, Func("b.do_help", FALSE, <<>>)),
           Attr(<<"d", "o", "_", "x">>, Func("b.do_x", TRUE, <<>>))>>)

\* Holds a class, but none derived from base.Manager.
PluginC ==
    File(<<"c", ".", "p", "y">>,
         <<Attr(<<"C">>, Class("c.C", FALSE)),
           Attr(<<"d", "o", "_", "y">>, Func("c.do_y", FALSE, <<>>))>>)

PluginInit == File(InitName \o PySuffix, <<>>)

\* A file the *.py pattern does not match.
NotesFile == File(<<"n">>, <<>>)

DirEntries == {PluginA, PluginB, PluginC, PluginInit, NotesFile}

\* The version packages that exist next to shell.py.
ExistingVersionDirs == {<<"v", "1", "_", "1">>}

NoDuplicates(s) == \A i, j \in 1..Len(s) : i # j => s[i] # s[j]

RECURSIVE SeqsUpTo(_, _)
SeqsUpTo(S, n) ==
    IF n = 0 THEN {<<>>}
    ELSE LET shorter == SeqsUpTo(S, n - 1)
         IN  shorter \cup {Append(s, e) : s \in shorter, e \in S}

\* Every order in which os.listdir may enumerate a directory's entries.
Listings(dir) ==
    IF dir \in ExistingVersionDirs
        THEN {l \in SeqsUpTo(DirEntries, MaxFiles) : NoDuplicates(l)}
        ELSE {<<>>}

(***************************************************************************)
(* _discover_extensions                                                    *)
(***************************************************************************)
VersionStr(version) == <<"v">> \o Replace(version, ".", "_")

\* glob.iglob(".../*.py") over one enumeration of the directory.
Glob(entries) == SelectSeq(entries, LAMBDA f : EndsWith(f.file, PySuffix))

\* The first attribute value that is a class derived from base.Manager.
RECURSIVE FindManager(_)
FindManager(module) ==
    IF module = <<>> THEN "None"
    ELSE IF Head(module).value.kind = "class" /\ Head(module).value.manager
        THEN Head(module).value.id
        ELSE FindManager(Tail(module))

Extension(name, manager, module) ==
    [name |-> name, manager |-> manager, module |-> module]

Discovered(exts) == [raised |-> FALSE, extensions |-> exts]

DiscoveryFailed == [raised |-> TRUE, extensions |-> <<>>]

\* Mutant: a plugin file without a Manager class is skipped.
RECURSIVE DiscoverLoopSkipping(_, _)
DiscoverLoopSkipping(paths, exts) ==
    IF paths = <<>> THEN Discovered(exts)
    ELSE LET ext_path == Head(paths)
             name == SubSeq(ext_path.file, 1, Len(ext_path.file) - 3)
             ext_manager_class == FindManager(ext_path.module)
         IN  IF name = InitName \/ ext_manager_class = "None"
                 THEN DiscoverLoopSkipping(Tail(paths), exts)
                 ELSE DiscoverLoopSkipping(Tail(paths),
                          Append(exts, Extension(name, ext_manager_class,
                                                 ext_path.module)))

RECURSIVE DiscoverLoop(_, _)
DiscoverLoop(paths, exts) ==
    IF paths = <<>> THEN Discovered(exts)
    ELSE LET ext_path == Head(paths)
             name == SubSeq(ext_path.file, 1, Len(ext_path.file) - 3)
             ext_manager_class == FindManager(ext_path.module)
         IN  IF name = InitName
                 THEN DiscoverLoop(Tail(paths), exts)
                 ELSE IF ext_manager_class = "None"
                     THEN DiscoveryFailed
                     ELSE DiscoverLoop(Tail(paths),
                              Append(exts, Extension(name, ext_manager_class,
                                                     ext_path.module)))

_discover_extensions(entries) == DiscoverLoop(Glob(entries), <<>>)

(***************************************************************************)
(* _find_actions, _add_bash_completion_subparser, get_subcommand_parser    *)
(***************************************************************************)
\* argparse: a flag is an option string when it starts with the prefix char.
IsOptionString(flag) == StartsWith(flag, <<"-">>)

SeqToSet(s) == {s[i] : i \in 1..Len(s)}

\* The option strings add_argument registers for one descriptor.
OptionStrings(arg) ==
    IF IsOptionString(arg.names[1]) THEN SeqToSet(arg.names) ELSE {}

\* The subparser after subparser.add_argument(*args, **kwargs) for each
\* declared argument and set_defaults(func=callback).
Subparser(callback, base_options, arguments) ==
    [func |-> callback,
     option_string_actions |->
         base_options \cup UNION {OptionStrings(arguments[i]) : i \in 1..Len(arguments)},
     positionals |->
         SelectSeq(arguments, LAMBDA a : ~IsOptionString(a.names[1]))]

\* self.subcommands[command] = subparser; a later registration replaces an
\* earlier one of the same name.
Register(registry, command, subparser) == (command :> subparser) @@ registry

\* Mutant: the prefix is dropped but underscores are kept.
CommandNameNoReplace(attr) == SubSeq(attr, 4, Len(attr))

\* attr[3:].replace('_', '-')
CommandName(attr) == Replace(SubSeq(attr, 4, Len(attr)), "_", "-")

RECURSIVE _find_actions(_, _)
_find_actions(registry, actions_module) ==
    IF actions_module = <<>> THEN registry
    ELSE LET attr == Head(actions_module).name
             callback == Head(actions_module).value
         IN  IF StartsWith(attr, DoPrefix)
                 THEN _find_actions(
                          Register(registry, CommandName(attr),
                                   Subparser(callback, {OptH, OptHelp},
                                             callback.arguments)),
                          Tail(actions_module))
                 ELSE _find_actions(registry, Tail(actions_module))

_add_bash_completion_subparser(registry) ==
    Register(registry, BashCompletionUnderscore,
             Subparser(do_bash_completion, {}, <<>>))

\* The dict lookup with its KeyError fallback.
ActionsModule(version) ==
    IF version \in {Version11, Version2}
        THEN (Version11 :> shell_v1_1 @@ Version2 :> shell_v1_1)[version]
        ELSE shell_v1_1

RECURSIVE FindExtensionActions(_, _)
FindExtensionActions(registry, exts) ==
    IF exts = <<>> THEN registry
    ELSE FindExtensionActions(_find_actions(registry, Head(exts).module), Tail(exts))

EmptyRegistry == [k \in {} |-> {}]

get_subcommand_parser(version, exts) ==
    _add_bash_completion_subparser(
        FindExtensionActions(
            _find_actions(
                _find_actions(
                    _find_actions(EmptyRegistry, ActionsModule(version)),
                    shell_keystone),
                shell_self),
            exts))

\* shell_v1_1.CLIENT_CLASS
CLIENT_CLASS == "v1_1.Client"

get_api_class(version) ==
    IF version \in {Version11, Version2}
        THEN (Version11 :> CLIENT_CLASS @@ Version2 :> CLIENT_CLASS)[version]
        ELSE CLIENT_CLASS

(***************************************************************************)
(* do_bash_completion: the set of tokens on the printed line.              *)
(***************************************************************************)
\* Mutant: only the hyphenated name is removed.
BashCompletionRemovedHyphenOnly == {BashCompletionHyphen}

BashCompletionRemoved == {BashCompletionHyphen, BashCompletionUnderscore}

\* commands.remove(x) raises KeyError when x is absent.
RemoveRaises(registry) == ~(BashCompletionRemoved \subseteq DOMAIN registry)

BashCompletionTokens(registry) ==
    LET commands == DOMAIN registry
        opts == UNION {registry[sc_str].option_string_actions : sc_str \in DOMAIN registry}
    IN  (commands \ BashCompletionRemoved) \cup opts

(***************************************************************************)
(* The command lines examined.                                             *)
(***************************************************************************)
Versions == {NoVersion, Version10, Version11, Version2, Version3}

ListName == <<"l", "i", "s", "t">>
DiscoverName == <<"d", "i", "s", "c", "o", "v", "e", "r">>
XName == <<"x">>
BogusName == <<"b", "o", "g", "u", "s">>

FirstTokens == {HelpName, BashCompletionHyphen, BashCompletionUnderscore,
                ListName, DiscoverName, XName, BogusName}

SecondTokens == {ListName, BogusName}

TokenLists ==
    {<<>>} \cup {<<t>> : t \in FirstTokens}
           \cup {<<t, u>> : t \in FirstTokens, u \in SecondTokens}

Argv ==
    [version : Versions, debug : BOOLEAN,
     username : {"", "user"}, password : {"", "secret"}, apikey : {"", "key"},
     projectid : {"", "tenant"}, url : {"", "http://auth"},
     endpoint_name : {""}, tokens : TokenLists]

NoOptions == [version |-> NoVersion, debug |-> FALSE]
NoArgs == [func |-> Other("None"), command |-> <<>>]
NoLocals == [user |-> "", password |-> "", projectid |-> "", url |-> "",
             endpoint_name |-> ""]
NoClient == [cls |-> "None", user |-> "", password |-> "", projectid |-> "",
             url |-> "", endpoint_name |-> "", extensions |-> <<>>,
             authenticated |-> FALSE]
NoException == [type |-> "None", msg |-> "", code |-> 0]
NoOutput == [kind |-> "none", subject |-> <<>>, tokens |-> {}]

CommandError(msg) == [type |-> "CommandError", msg |-> msg, code |-> 0]
SystemExit(code) == [type |-> "SystemExit", msg |-> "usage", code |-> code]

Init ==
    /\ argv \in Argv
    /\ pc = "parse_known_args"
    /\ options = NoOptions
    /\ version_str = <<>>
    /\ listing = <<>>
    /\ extensions = <<>>
    /\ subcommands = EmptyRegistry
    /\ parser = FALSE
    /\ args = NoArgs
    /\ debuglevel = 0
    /\ locals = NoLocals
    /\ cs = NoClient
    /\ calls = <<>>
    /\ log = <<>>
    /\ stdout = NoOutput
    /\ stderr = ""
    /\ exc = NoException
    /\ traceback = FALSE
    /\ exit_status = -1

\* An exception leaves OpenStackComputeShell.main.
Raise(e) == exc' = e /\ pc' = "raised"

(***************************************************************************)
(* main, lines 198-200: the tolerant first parse.                          *)
(***************************************************************************)
ParseKnownArgs ==
    /\ pc = "parse_known_args"
    /\ options' = [version |-> argv.version, debug |-> argv.debug]
    /\ log' = Append(log, "parse_known_args")
    /\ pc' = "discover"
    /\ UNCHANGED <<argv, version_str, listing, extensions, subcommands, parser, args,
                   debuglevel, locals, cs, calls, stdout, stderr, exc,
                   traceback, exit_status>>

(***************************************************************************)
(* main, line 203: extension discovery.                                    *)
(***************************************************************************)
DiscoverExtensions ==
    /\ pc = "discover"
    /\ version_str' = VersionStr(options.version)
    /\ \E l \in Listings(VersionStr(options.version)) :
          LET found == _discover_extensions(l)
          IN  /\ listing' = l
              /\ IF found.raised
                    THEN /\ Raise([type |-> "Exception",
                                   msg |-> "Could not find Manager class in extension.",
                                   code |-> 0])
                         /\ UNCHANGED <<extensions, log>>
                    ELSE /\ extensions' = found.extensions
                         /\ log' = Append(log, "discover")
                         /\ pc' = "build"
                         /\ UNCHANGED exc
    /\ UNCHANGED <<argv, options, subcommands, parser, args, debuglevel,
                   locals, cs, calls, stdout, stderr, traceback, exit_status>>

(***************************************************************************)
(* main, lines 204-206: the subcommand parser.                             *)
(***************************************************************************)
GetSubcommandParser ==
    /\ pc = "build"
    /\ subcommands' = get_subcommand_parser(options.version, extensions)
    /\ parser' = TRUE
    /\ log' = Append(log, "build")
    /\ pc' = "parse_args"
    /\ UNCHANGED <<argv, options, version_str, listing, extensions, args, debuglevel,
                   locals, cs, calls, stdout, stderr, exc, traceback,
                   exit_status>>

(***************************************************************************)
(* main, lines 209-213: the strict second parse and the debug toggle.      *)
(* argparse reports a usage error by sys.exit(2).                          *)
(***************************************************************************)
Required(positionals) == Len(SelectSeq(positionals, LAMBDA a : a.nargs # "?"))

UsageError(tokens) ==
    \/ tokens = <<>>
    \/ /\ tokens # <<>>
       /\ \/ tokens[1] \notin DOMAIN subcommands
          \/ /\ tokens[1] \in DOMAIN subcommands
             /\ \/ Len(tokens) - 1 > Len(subcommands[tokens[1]].positionals)
                \/ Len(tokens) - 1 < Required(subcommands[tokens[1]].positionals)

ParseArgs ==
    /\ pc = "parse_args"
    /\ IF UsageError(argv.tokens)
          THEN /\ Raise(SystemExit(2))
               /\ UNCHANGED <<args, debuglevel, log>>
          ELSE /\ args' = [func |-> subcommands[argv.tokens[1]].func,
                           command |-> IF Len(argv.tokens) > 1
                                           THEN argv.tokens[2] ELSE <<>>]
               /\ debuglevel' = IF argv.debug THEN 1 ELSE debuglevel
               /\ log' = Append(log, "parse_args")
               /\ pc' = "dispatch"
               /\ UNCHANGED exc
    /\ UNCHANGED <<argv, options, version_str, listing, extensions, subcommands, parser,
                   locals, cs, calls, stdout, stderr, traceback, exit_status>>

(***************************************************************************)
(* main, lines 216-221, with do_help and do_bash_completion.               *)
(***************************************************************************)
\* Mutant: the help short circuit is never taken.
IsHelpNever(func) == FALSE

\* Line 216: args.func == self.do_help
IsHelp(func) == func = do_help

\* Line 219: args.func == self.do_bash_completion
IsBashCompletion(func) == func = do_bash_completion

DoHelp ==
    /\ pc = "dispatch"
    /\ IsHelp(args.func)
    /\ calls' = Append(calls, do_help)
    /\ IF args.command # <<>> /\ args.command \notin DOMAIN subcommands
          THEN /\ Raise(CommandError("is not a valid subcommand"))
               /\ UNCHANGED <<stdout, log>>
          ELSE /\ stdout' = [kind |-> "help", subject |-> args.command,
                             tokens |-> {}]
               /\ log' = Append(log, "return 0")
               /\ pc' = "returned"
               /\ UNCHANGED exc
    /\ UNCHANGED <<argv, options, version_str, listing, extensions, subcommands, parser,
                   args, debuglevel, locals, cs, stderr, traceback,
                   exit_status>>

DoBashCompletion ==
    /\ pc = "dispatch"
    /\ ~IsHelp(args.func)
    /\ IsBashCompletion(args.func)
    /\ calls' = Append(calls, do_bash_completion)
    /\ IF RemoveRaises(subcommands)
          THEN /\ Raise([type |-> "KeyError", msg |-> "bash-completion",
                         code |-> 0])
               /\ UNCHANGED <<stdout, log>>
          ELSE /\ stdout' = [kind |-> "tokens", subject |-> <<>>,
                             tokens |-> BashCompletionTokens(subcommands)]
               /\ log' = Append(log, "return 0")
               /\ pc' = "returned"
               /\ UNCHANGED exc
    /\ UNCHANGED <<argv, options, version_str, listing, extensions, subcommands, parser,
                   args, debuglevel, locals, cs, stderr, traceback,
                   exit_status>>

(***************************************************************************)
(* main, lines 223-255: the credential checks of authenticated commands.   *)
(***************************************************************************)
\* utils.isunauthenticated: the callback's `unauthenticated` tag.
isunauthenticated(func) == func.unauthenticated

\* Mutant: the credential checks run for every command.
RequiresCredentialsAlways(func) == TRUE

\* Line 234: the gate of the credential checks.
RequiresCredentials(func) == ~isunauthenticated(func)

\* Mutant: authenticate() is never called.
RequiresAuthenticateNever(func) == FALSE

\* Line 275: the gate of authenticate().
RequiresAuthenticate(func) == ~isunauthenticated(func)

UsernameMsg ==
    "You must provide a username, either via --username or via env[NOVA_USERNAME]"
PasswordMsg ==
    "You must provide a password, either via --password or via env[NOVA_PASSWORD]"
ProjectidMsg ==
    "You must provide an projectid, either via --projectid or via env[OS_TENANT_NAME]"
UrlMsg ==
    "You must provide a auth url, either via --url or via env[OS_AUTH_URL]"
VersionProjectidMsg ==
    "You must provide an projectid, either via --projectid or via env[NOVA_PROJECT_ID"
VersionUrlMsg ==
    "You must provide a auth url, either via --url or via env[NOVA_URL"

\* The checks of lines 235-255 in order: what is checked, whether it
\* passes, and the message raised when it does not.
CredentialChecks(user, password, apikey, projectid, url) ==
    <<[name |-> "username", ok |-> user # "", msg |-> UsernameMsg],
      [name |-> "password", ok |-> password # "" \/ apikey # "", msg |-> PasswordMsg],
      [name |-> "projectid", ok |-> projectid # "", msg |-> ProjectidMsg],
      [name |-> "url", ok |-> url # "", msg |-> UrlMsg]>>

\* The gate of lines 257-266 and its checks.
VersionRequiresProject(version) == version # <<>> /\ version # Version10

VersionChecks(projectid, url) ==
    <<[name |-> "version projectid", ok |-> projectid # "", msg |-> VersionProjectidMsg],
      [name |-> "version url", ok |-> url # "", msg |-> VersionUrlMsg]>>

\* The names of the checks passed before the first failing one.
RECURSIVE Passed(_)
Passed(checks) ==
    IF checks = <<>> \/ ~Head(checks).ok THEN <<>>
    ELSE <<Head(checks).name>> \o Passed(Tail(checks))

\* The message of the first failing check, "" when all pass.
RECURSIVE FirstFailure(_)
FirstFailure(checks) ==
    IF checks = <<>> THEN ""
    ELSE IF ~Head(checks).ok THEN Head(checks).msg
    ELSE FirstFailure(Tail(checks))

CheckCredentials ==
    /\ pc = "dispatch"
    /\ ~IsHelp(args.func)
    /\ ~IsBashCompletion(args.func)
    /\ LET checks == IF RequiresCredentials(args.func)
                         THEN CredentialChecks(argv.username, argv.password,
                                               argv.apikey, argv.projectid,
                                               argv.url)
                         ELSE <<>>
       IN  /\ locals' = [user |-> argv.username,
                         password |-> IF RequiresCredentials(args.func)
                                         /\ argv.username # ""
                                         /\ argv.password = ""
                                        THEN argv.apikey ELSE argv.password,
                         projectid |-> argv.projectid,
                         url |-> argv.url,
                         endpoint_name |-> IF argv.endpoint_name = ""
                                              THEN "publicURL"
                                              ELSE argv.endpoint_name]
           /\ log' = log \o Passed(checks)
           /\ IF FirstFailure(checks) # ""
                 THEN Raise(CommandError(FirstFailure(checks)))
                 ELSE pc' = "version_check" /\ UNCHANGED exc
    /\ UNCHANGED <<argv, options, version_str, listing, extensions, subcommands, parser,
                   args, debuglevel, cs, calls, stdout, stderr, traceback,
                   exit_status>>

(***************************************************************************)
(* main, lines 257-266: the project id and url a version requires.         *)
(***************************************************************************)
CheckVersion ==
    /\ pc = "version_check"
    /\ LET checks == IF VersionRequiresProject(options.version)
                         THEN VersionChecks(locals.projectid, locals.url)
                         ELSE <<>>
       IN  /\ log' = log \o Passed(checks)
           /\ IF FirstFailure(checks) # ""
                 THEN Raise(CommandError(FirstFailure(checks)))
                 ELSE pc' = "client" /\ UNCHANGED exc
    /\ UNCHANGED <<argv, options, version_str, listing, extensions, subcommands, parser,
                   args, debuglevel, locals, cs, calls, stdout, stderr,
                   traceback, exit_status>>

(***************************************************************************)
(* main, lines 268-272: the client.                                        *)
(***************************************************************************)
ConstructClient ==
    /\ pc = "client"
    /\ cs' = [cls |-> get_api_class(options.version),
              user |-> locals.user, password |-> locals.password,
              projectid |-> locals.projectid, url |-> locals.url,
              endpoint_name |-> locals.endpoint_name,
              extensions |-> extensions, authenticated |-> FALSE]
    /\ log' = Append(log, "client")
    /\ pc' = "authenticate"
    /\ UNCHANGED <<argv, options, version_str, listing, extensions, subcommands, parser,
                   args, debuglevel, locals, calls, stdout, stderr, exc,
                   traceback, exit_status>>

(***************************************************************************)
(* main, lines 274-280: authentication.  The service accepts or rejects.   *)
(***************************************************************************)
AuthOutcomes == {"ok", "Unauthorized", "AuthorizationFailure"}

Authenticate ==
    /\ pc = "authenticate"
    /\ IF RequiresAuthenticate(args.func)
          THEN \E outcome \in AuthOutcomes :
                  CASE outcome = "ok" ->
                         /\ cs' = [cs EXCEPT !.authenticated = TRUE]
                         /\ log' = Append(log, "authenticate")
                         /\ pc' = "callback"
                         /\ UNCHANGED exc
                    [] outcome = "Unauthorized" ->
                         /\ Raise(CommandError("Invalid OpenStack Nova credentials."))
                         /\ UNCHANGED <<cs, log>>
                    [] outcome = "AuthorizationFailure" ->
                         /\ Raise(CommandError("Unable to authorize user"))
                         /\ UNCHANGED <<cs, log>>
          ELSE /\ pc' = "callback"
               /\ UNCHANGED <<cs, log, exc>>
    /\ UNCHANGED <<argv, options, version_str, listing, extensions, subcommands, parser,
                   args, debuglevel, locals, calls, stdout, stderr,
                   traceback, exit_status>>

(***************************************************************************)
(* main, line 282: the callback.  It returns or raises.                    *)
(***************************************************************************)
InvokeCallback ==
    /\ pc = "callback"
    /\ calls' = Append(calls, args.func)
    /\ log' = Append(log, "callback")
    /\ \E outcome \in {"return", "raise"} :
          IF outcome = "return"
             THEN pc' = "returned" /\ UNCHANGED exc
             ELSE Raise([type |-> "Exception", msg |-> "callback failed",
                         code |-> 0])
    /\ UNCHANGED <<argv, options, version_str, listing, extensions, subcommands, parser,
                   args, debuglevel, locals, cs, stdout, stderr, traceback,
                   exit_status>>

(***************************************************************************)
(* The top-level main(), lines 333-342.                                    *)
(***************************************************************************)
\* Line 338: whether the handler re-raises.
Reraises == debuglevel = 1

\* Mutant: the handler prints or re-raises but the status stays 0.
TopLevelHandlerNoExit ==
    /\ pc = "raised"
    /\ exc.type # "SystemExit"
    /\ IF debuglevel = 1
          THEN traceback' = TRUE /\ UNCHANGED stderr
          ELSE stderr' = exc.msg /\ UNCHANGED traceback
    /\ exit_status' = 0
    /\ pc' = "done"
    /\ UNCHANGED <<argv, options, version_str, listing, extensions,
                   subcommands, parser, args, debuglevel, locals, cs, calls,
                   log, stdout, exc>>

\* `except Exception` catches the failure: it is re-raised (the interpreter
\* dumps the stack and exits 1) or its message is printed, then exit(1).
TopLevelHandler ==
    /\ pc = "raised"
    /\ exc.type # "SystemExit"
    /\ IF Reraises
          THEN traceback' = TRUE /\ UNCHANGED stderr
          ELSE stderr' = exc.msg /\ UNCHANGED traceback
    /\ exit_status' = 1
    /\ pc' = "done"
    /\ UNCHANGED <<argv, options, version_str, listing, extensions, subcommands, parser,
                   args, debuglevel, locals, cs, calls, log, stdout, exc>>

\* SystemExit is no Exception: argparse's exit status leaves the process.
SystemExitPropagates ==
    /\ pc = "raised"
    /\ exc.type = "SystemExit"
    /\ exit_status' = exc.code
    /\ pc' = "done"
    /\ UNCHANGED <<argv, options, version_str, listing, extensions, subcommands, parser,
                   args, debuglevel, locals, cs, calls, log, stdout, stderr,
                   exc, traceback>>

\* OpenStackComputeShell.main returned: main() ends and the process exits 0.
MainReturns ==
    /\ pc = "returned"
    /\ exit_status' = 0
    /\ pc' = "done"
    /\ UNCHANGED <<argv, options, version_str, listing, extensions, subcommands, parser,
                   args, debuglevel, locals, cs, calls, log, stdout, stderr,
                   exc, traceback>>

Next ==
    \/ ParseKnownArgs
    \/ DiscoverExtensions
    \/ GetSubcommandParser
    \/ ParseArgs
    \/ DoHelp
    \/ DoBashCompletion
    \/ CheckCredentials
    \/ CheckVersion
    \/ ConstructClient
    \/ Authenticate
    \/ InvokeCallback
    \/ TopLevelHandler
    \/ SystemExitPropagates
    \/ MainReturns

Spec == Init /\ [][Next]_vars

(***************************************************************************)
(* Vocabulary of the properties.                                           *)
(***************************************************************************)
AllCredentialsEmpty ==
    /\ argv.username = "" /\ argv.password = "" /\ argv.apikey = ""
    /\ argv.projectid = "" /\ argv.url = ""

\* The second parse succeeded and selected a callback.
Selected == args # NoArgs

\* The selected callback is one of the shell's two short-circuited built-ins.
BuiltinSelected == args.func = do_help \/ args.func = do_bash_completion

CredentialEvents == {"username", "password", "projectid", "url",
                     "version projectid", "version url"}

CredentialMsgs == {UsernameMsg, PasswordMsg, ProjectidMsg, UrlMsg,
                   VersionProjectidMsg, VersionUrlMsg}

Logged(e) == \E i \in 1..Len(log) : log[i] = e

AfterChecks == pc \in {"version_check", "client", "authenticate", "callback",
                       "returned", "raised", "done"}

(***************************************************************************)
(* C1                                                                      *)
(***************************************************************************)
\* C1, as claimed: when the selected callback is tagged unauthenticated (and
\* is not help / bash-completion) and every credential field is empty, then
\* whatever the version, main raises no CommandError about a missing
\* username, password, projectid or auth url, and the finished run has
\* constructed the client and invoked the callback without authenticate().
C1_AsClaimed ==
    (Selected /\ ~BuiltinSelected /\ isunauthenticated(args.func)
        /\ AllCredentialsEmpty)
    => /\ exc.msg \notin CredentialMsgs
       /\ pc = "done" => /\ calls = <<args.func>>
                         /\ cs.cls # "None"
                         /\ ~cs.authenticated

\* C1, amended: under the same premises the credential checks of
\* authenticated commands (username, password, projectid, url) never run and
\* authenticate() is never called.  The version gate remains: when the
\* version is non-empty and not "1.0" main raises the CommandError about the
\* projectid before constructing the client; when the version is empty or
\* "1.0" main raises no CommandError at all, constructs the client and
\* invokes the callback.
C1_UnauthenticatedSkipsCredentialChecks ==
    (Selected /\ ~BuiltinSelected /\ isunauthenticated(args.func)
        /\ AllCredentialsEmpty)
    => /\ exc.msg \notin {UsernameMsg, PasswordMsg, ProjectidMsg, UrlMsg}
       /\ \A e \in {"username", "password", "projectid", "url", "authenticate"} :
             ~Logged(e)
       /\ ~cs.authenticated
       /\ (argv.version \in {NoVersion, Version10})
             => /\ exc.type # "CommandError"
                /\ pc = "done" => /\ calls = <<args.func>>
                                  /\ cs.cls # "None"
       /\ (argv.version \notin {NoVersion, Version10} /\ AfterChecks
              /\ pc # "version_check")
             => /\ exc.msg = VersionProjectidMsg
                /\ cs.cls = "None"
                /\ calls = <<>>

C1_Witness ==
    /\ Selected /\ ~BuiltinSelected /\ isunauthenticated(args.func)
    /\ AllCredentialsEmpty
    /\ argv.version = NoVersion
    /\ pc = "done"
    /\ calls = <<args.func>>
    /\ exit_status = 0

NamesBuiltin ==
    /\ Selected
    /\ \/ /\ argv.tokens[1] = HelpName
          /\ args.command # <<>> => args.command \in DOMAIN subcommands
       \/ argv.tokens[1] \in {BashCompletionHyphen, BashCompletionUnderscore}

NoAuthenticationStep ==
    /\ \A e \in CredentialEvents \cup {"client", "authenticate", "callback"} :
          ~Logged(e)
    /\ cs = NoClient
    /\ exc.msg \notin CredentialMsgs
    /\ pc \notin {"version_check", "client", "authenticate", "callback"}

\* C3, as claimed: whenever the command named is help or bash-completion /
\* bash_completion, for every combination of credentials, version and
\* discovered extensions, no credential check runs, no client is constructed,
\* authenticate() is not called, and the run ends with status 0.
C3_AsClaimed ==
    NamesBuiltin => /\ NoAuthenticationStep
                    /\ pc = "done" => exit_status = 0

\* Some discovered extension module defines do_<name>, whose registration
\* replaces the shell's own command of that name.
DoAttrOf(command) ==
    IF command = HelpName THEN <<"d", "o", "_", "h", "e", "l", "p">>
    ELSE IF command = BashCompletionHyphen
        THEN <<"d", "o", "_", "b", "a", "s", "h", "_", "c", "o", "m", "p", "l",
               "e", "t", "i", "o", "n">>
        ELSE <<>>

ExtensionDefines(command) ==
    \E i \in 1..Len(extensions) : \E j \in 1..Len(extensions[i].module) :
        /\ DoAttrOf(command) # <<>>
        /\ extensions[i].module[j].name = DoAttrOf(command)

\* C3, amended: the same, provided the name still resolves to the shell's
\* own do_help / do_bash_completion: always for bash_completion, and for help
\* and bash-completion when no discovered extension module defines do_help /
\* do_bash_completion (the last registration of a name wins).  Then the help
\* or the completion line is printed and the run ends with status 0.
C3_BuiltinsBypassAuthentication ==
    (NamesBuiltin /\ ~ExtensionDefines(argv.tokens[1]))
    => /\ NoAuthenticationStep
       /\ BuiltinSelected
       /\ pc \in {"returned", "done"}
             => /\ exc = NoException
                /\ stdout.kind = IF argv.tokens[1] = HelpName THEN "help"
                                                              ELSE "tokens"
                /\ calls = <<args.func>>
       /\ pc = "done" => exit_status = 0
       /\ pc # "raised"

C3_Witness ==
    /\ NamesBuiltin /\ ~ExtensionDefines(argv.tokens[1])
    /\ argv.tokens = <<HelpName, ListName>>
    /\ extensions # <<>>
    /\ AllCredentialsEmpty
    /\ pc = "done" /\ exit_status = 0 /\ stdout.kind = "help"

(***************************************************************************)
(* C4                                                                      *)
(***************************************************************************)
\* C4, as claimed: the exit status is 0 on every successful run and 1 on
\* every user-facing error, usage errors of the strict second parse included.
C4_AsClaimed ==
    pc = "done" => exit_status = IF exc = NoException THEN 0 ELSE 1

\* C4, amended: the exit status is 0 on every successful run (a dispatched
\* command that returns normally, the help path, the bash-completion path),
\* 1 on every failure raised as an exception (missing credentials, rejected
\* authentication, help <unknown name>, a plugin without a Manager class),
\* and 2, the status argparse exits with, on unrecognized tokens or an
\* unknown subcommand in the strict second parse.
C4_ExitStatus ==
    pc = "done"
    => /\ exit_status \in {0, 1, 2}
       /\ exit_status = 0 <=> exc = NoException
       /\ exit_status = 0 <=> /\ calls # <<>>
                              /\ \/ stdout.kind \in {"help", "tokens"}
                                 \/ Logged("callback")
                              /\ exc.type = "None"
       /\ exit_status = 2 <=> parser /\ UsageError(argv.tokens)
       /\ exc.type \in {"CommandError", "Exception", "KeyError"}
             => exit_status = 1
       /\ ~parser => exit_status = 1
       /\ (Selected /\ args.func = do_help /\ args.command # <<>>
              /\ args.command \notin DOMAIN subcommands) => exit_status = 1

C4_Witness ==
    /\ pc = "done"
    /\ argv.tokens = <<ListName, BogusName>>
    /\ exit_status = 2

(***************************************************************************)
(* C5                                                                      *)
(***************************************************************************)
\* C5: with --debug every failure raised in OpenStackComputeShell.main, a
\* plugin load failure in extension discovery included, is re-raised by the
\* top-level handler (the run ends with a stack dump); without --debug only
\* the message is printed to the error stream.
C5_AsClaimed ==
    (pc = "done" /\ exc.type \notin {"None", "SystemExit"})
    => IF argv.debug THEN traceback /\ stderr = ""
                     ELSE ~traceback /\ stderr = exc.msg

(***************************************************************************)
(* C6                                                                      *)
(***************************************************************************)
\* C6: for a version outside {"1.1", "2"} the command module, the client
\* class and the plugin directory scanned by _discover_extensions are those
\* of version 1.1.
C6_AsClaimed ==
    (argv.version \notin {Version11, Version2}
        /\ pc \notin {"parse_known_args", "discover"})
    => /\ ActionsModule(argv.version) = ActionsModule(Version11)
       /\ get_api_class(argv.version) = get_api_class(Version11)
       /\ version_str = <<"v", "1", "_", "1">>

(***************************************************************************)
(* C7                                                                      *)
(***************************************************************************)
\* What each do_* attribute of the modules at hand is to be called.
ExpectedCommand ==
    {<<<<"d", "o", "_", "i", "m", "a", "g", "e", "_", "l", "i", "s", "t">>,
       <<"i", "m", "a", "g", "e", "-", "l", "i", "s", "t">>>>,
     <<<<"d", "o", "_", "l", "i", "s", "t">>, ListName>>,
     <<<<"d", "o", "_", "d", "i", "s", "c", "o", "v", "e", "r">>, DiscoverName>>,
     <<<<"d", "o", "_", "x">>, XName>>,
     <<<<"d", "o", "_", "y">>, <<"y">>>>,
     <<<<"d", "o", "_", "h", "e", "l", "p">>, HelpName>>,
     <<<<"d", "o", "_", "b", "a", "s", "h", "_", "c", "o", "m", "p", "l", "e",
         "t", "i", "o", "n">>, BashCompletionHyphen>>}

\* The command modules of the claim: version, keystone and extension modules.
CommandModules ==
    <<shell_v1_1, shell_keystone>>
        \o [i \in 1..Len(extensions) |-> extensions[i].module]

\* The (module, attribute) positions holding an attribute named do_*.
DoAttributes ==
    UNION {{<<i, j>> : j \in {k \in 1..Len(CommandModules[i]) :
                          \E e \in ExpectedCommand :
                              e[1] = CommandModules[i][k].name}} :
           i \in 1..Len(CommandModules)}

NameOf(ij) ==
    (CHOOSE e \in ExpectedCommand : e[1] = CommandModules[ij[1]][ij[2]].name)[2]

DerivedNames == {NameOf(ij) : ij \in DoAttributes}

\* C7, as claimed: with N attributes named do_* in the command modules, the
\* registry holds exactly N commands plus the two built-ins help and
\* bash-completion, and no other key.
C7_AsClaimed ==
    parser => /\ DOMAIN subcommands
                    = DerivedNames \cup {HelpName, BashCompletionHyphen}
              /\ Cardinality(DOMAIN subcommands) = Cardinality(DoAttributes) + 2

\* C7, amended: the keys of the registry are exactly the names derived from
\* the N do_* attributes (prefix dropped, underscores turned into hyphens)
\* plus three built-in keys: help, bash-completion and bash_completion.  The
\* registry holds N + 3 keys when the derived names differ from one another
\* and from help and bash-completion, and fewer otherwise (a later
\* registration replaces an earlier one of the same name).  Every key maps
\* to one callable, an attribute whose derived name is the key.
C7_RegistryKeys ==
    parser
    => /\ DOMAIN subcommands
             = DerivedNames
                  \cup {HelpName, BashCompletionHyphen, BashCompletionUnderscore}
       /\ Cardinality(DOMAIN subcommands) <= Cardinality(DoAttributes) + 3
       /\ Cardinality(DOMAIN subcommands) = Cardinality(DoAttributes) + 3
             <=> /\ \A a, b \in DoAttributes : NameOf(a) = NameOf(b) => a = b
                 /\ DerivedNames \cap {HelpName, BashCompletionHyphen} = {}
       /\ subcommands[BashCompletionUnderscore].func = do_bash_completion
       /\ \A k \in DerivedNames :
             \E ij \in DoAttributes :
                 /\ NameOf(ij) = k
                 /\ subcommands[k].func = CommandModules[ij[1]][ij[2]].value

C7_Witness ==
    /\ parser
    /\ Len(extensions) = 1
    /\ Cardinality(DoAttributes) = 4
    /\ Cardinality(DOMAIN subcommands) = 7

PluginFiles ==
    {i \in 1..Len(listing) :
        listing[i].file \in {PluginA.file, PluginB.file, PluginC.file}}

DefinesManager(f) ==
    \E j \in 1..Len(f.module) :
        f.module[j].value.kind = "class" /\ f.module[j].value.manager

AfterDiscovery == pc \notin {"parse_known_args", "discover"}

\* C9: when a plugin file other than __init__ defines no class derived from
\* base.Manager, discovery fails and the run aborts before the subcommand
\* parser is built, before the second parse, and before any client or
\* callback; the file is not skipped.  Otherwise discovery returns exactly
\* one (name, Manager class, module) tuple per plugin file other than
\* __init__.
C9_PluginWithoutManagerAborts ==
    AfterDiscovery
    => IF \E i \in PluginFiles : ~DefinesManager(listing[i])
          THEN /\ exc.type = "Exception"
               /\ exc.msg = "Could not find Manager class in extension."
               /\ extensions = <<>>
               /\ ~parser /\ subcommands = EmptyRegistry
               /\ args = NoArgs
               /\ cs = NoClient /\ calls = <<>>
               /\ pc \in {"raised", "done"}
               /\ pc = "done" => exit_status = 1
          ELSE /\ Len(extensions) = Cardinality(PluginFiles)
               /\ \A i \in PluginFiles :
                     Cardinality({e \in 1..Len(extensions) :
                         /\ extensions[e].name \o PySuffix = listing[i].file
                         /\ extensions[e].module = listing[i].module
                         /\ \E j \in 1..Len(listing[i].module) :
                               /\ listing[i].module[j].value.manager
                               /\ listing[i].module[j].value.id
                                     = extensions[e].manager}) = 1
               /\ exc.msg # "Could not find Manager class in extension."

C9_Witness ==
    /\ pc = "done"
    /\ Len(listing) = 2
    /\ listing[1] = PluginA /\ listing[2] = PluginC
    /\ exc.type = "Exception"
    /\ exit_status = 1

(***************************************************************************)
(* C10                                                                     *)
(***************************************************************************)
Alphabet == <<"_", "a", "b", "c", "i", "n", "t">>

Rank(c) == CHOOSE i \in 1..Len(Alphabet) : Alphabet[i] = c

RECURSIVE NameLess(_, _)
NameLess(a, b) ==
    IF b = <<>> THEN FALSE
    ELSE IF a = <<>> THEN TRUE
    ELSE IF Head(a) = Head(b) THEN NameLess(Tail(a), Tail(b))
    ELSE Rank(Head(a)) < Rank(Head(b))

\* C10: whatever the order in which the filesystem enumerates the plugin
\* files, _discover_extensions returns the tuples in ascending name order.
C10_AsClaimed ==
    (AfterDiscovery /\ pc # "raised")
    => \A i, j \in 1..Len(extensions) :
          i < j => NameLess(extensions[i].name, extensions[j].name)

====
